---- MODULE Spec2Model ----
(***************************************************************************)
(* A model of the cchipt CHIP-8 emulator: the virtual machine core         *)
(* (src/src/chip8.rs) and the driver-facing wrapper (src/src/emu.rs).      *)
(*                                                                         *)
(* The machine is the record  cpu  (struct Chip8).  Every function of the  *)
(* source is an operator of the same name over such records.  An operator  *)
(* that can panic returns  [cpu |-> ..., panic |-> BOOLEAN] : the fields   *)
(* as they are when the function returns or when the panic is raised.      *)
(*                                                                         *)
(* The two big arrays are kept sparse.  memory ([u8; 4096]) is the         *)
(* function from the addresses holding a nonzero byte to that byte, every  *)
(* other address of 0..4095 holding 0; gfx ([bool; 64 * 32]) is the set of *)
(* the cells that are true.  Both are normal forms: two arrays are equal   *)
(* exactly when their representations are.  An index outside an array      *)
(* panics, as it does in the source: the operators below test for it.      *)
(***************************************************************************)
EXTENDS Integers, Sequences, FiniteSets, TLC

VARIABLES
    cpu,              \* Emu.cpu : the Chip8 struct (emu.rs:54, chip8.rs:4-16)
    rom_loaded,       \* main.rs:42-43 : load_rom has run (it runs once, before the loop)
    panicked,         \* a panic was raised, or main returned the Err of load_rom:
                      \* the emulation session is over
    overflow_checks,  \* build profile: TRUE = arithmetic overflow panics (debug),
                      \*                FALSE = it wraps (release)
    hist,             \* history: what the last two ticks started from (most recent first)
                      \* and what the driver did after the last one
    calls,            \* history: the call sites of the calls not yet returned from
    label             \* gui.rs:90-96 : what the "Next opcode" / "Next Instruction"
                      \* labels were last given for the machine as it is now

vars == <<cpu, rom_loaded, panicked, overflow_checks, hist, calls, label>>

----------------------------------------------------------------------------
(* Program constants *)

MEMORY_SIZE   == 4096
GFX_SIZE      == 2048
SCREEN_WIDTH  == 64
SCREEN_HEIGHT == 32
NUM_REGS      == 16
STACK_SIZE    == 16
NUM_KEYS      == 16
PC_START      == 512
SPRITES_LEN   == 80

U8  == 256
U16 == 65536

CHARACTER_SPRITES ==
    << 240, 144, 144, 144, 240,    \* 0
        32,  96,  32,  32, 112,    \* 1
       240,  16, 240, 128, 240,    \* 2
       240,  16, 240,  16, 240,    \* 3
       144, 144, 240,  16,  16,    \* 4
       240, 128, 240,  16, 240,    \* 5
       240, 128, 240, 144, 240,    \* 6
       240,  16,  32,  64,  64,    \* 7
       240, 144, 240, 144, 240,    \* 8
       240, 144, 240,  16, 240,    \* 9
       240, 144, 240, 144, 144,    \* A
       224, 144, 224, 144, 224,    \* B
       240, 128, 128, 128, 240,    \* C
       224, 144, 144, 144, 224,    \* D
       240, 128, 240,   8, 240,    \* E
       240, 128, 240,   8, 128 >>  \* F

----------------------------------------------------------------------------
(* Bit operations on naturals (Rust's &, |, ^ on u8 / u16) *)

RECURSIVE BitAnd(_, _)
BitAnd(a, b) ==
    IF a = 0 \/ b = 0 THEN 0
    ELSE (IF a % 2 = 1 /\ b % 2 = 1 THEN 1 ELSE 0) + 2 * BitAnd(a \div 2, b \div 2)

RECURSIVE BitOr(_, _)
BitOr(a, b) ==
    IF a = 0 THEN b
    ELSE IF b = 0 THEN a
    ELSE (IF a % 2 = 1 \/ b % 2 = 1 THEN 1 ELSE 0) + 2 * BitOr(a \div 2, b \div 2)

RECURSIVE BitXor(_, _)
BitXor(a, b) ==
    IF a = 0 THEN b
    ELSE IF b = 0 THEN a
    ELSE (IF a % 2 # b % 2 THEN 1 ELSE 0) + 2 * BitXor(a \div 2, b \div 2)

(* Operand fields of an opcode *)
Group(opcode)  == opcode \div 4096                 \* (opcode & 0xF000) >> 12
FieldX(opcode) == (opcode \div 256) % 16           \* (opcode & 0x0F00) >> 8
FieldY(opcode) == (opcode \div 16) % 16            \* (opcode & 0x00F0) >> 4
FieldN(opcode) == opcode % 16                      \* opcode & 0x000F
FieldKK(opcode) == opcode % 256                    \* opcode & 0x00FF
FieldNNN(opcode) == opcode % 4096                  \* opcode & 0x0FFF

(* memory[a] and memory[a] = v, for a in 0..4095 *)
MemRead(mem, a) == IF a \in DOMAIN mem THEN mem[a] ELSE 0

MemWrite(mem, a, v) ==
    IF v = 0
    THEN [b \in DOMAIN mem \ {a} |-> mem[b]]
    ELSE [b \in DOMAIN mem \cup {a} |-> IF b = a THEN v ELSE mem[b]]

(* Results of a function that may panic *)
Ok(m)    == [cpu |-> m, panic |-> FALSE]
Panic(m) == [cpu |-> m, panic |-> TRUE]

----------------------------------------------------------------------------
(* Chip8::new *)

new ==
    [ V           |-> [i \in 0..(NUM_REGS - 1) |-> 0],
      I           |-> 0,
      delay_timer |-> 0,
      sound_timer |-> 0,
      stack       |-> [i \in 0..(STACK_SIZE - 1) |-> 0],
      sp          |-> 0,
      pc          |-> PC_START,
      memory      |-> [a \in {b \in 0..(SPRITES_LEN - 1) : CHARACTER_SPRITES[b + 1] # 0} |->
                          CHARACTER_SPRITES[a + 1]],
      key_states  |-> [k \in 0..(NUM_KEYS - 1) |-> FALSE],
      gfx         |-> {},
      make_beep   |-> FALSE ]

(* update_timers with the beep raised on every tick the sound timer runs *)
update_timers_beep_while_sounding(m) ==
    LET d == IF m.delay_timer > 0 THEN m.delay_timer - 1 ELSE m.delay_timer
        b == IF m.sound_timer > 0 THEN TRUE ELSE m.make_beep
        s == IF m.sound_timer > 0 THEN m.sound_timer - 1 ELSE m.sound_timer
    IN  [m EXCEPT !.delay_timer = d, !.sound_timer = s, !.make_beep = b]

(* Chip8::update_timers *)
update_timers(m) ==
    LET d == IF m.delay_timer > 0 THEN m.delay_timer - 1 ELSE m.delay_timer
        b == IF m.sound_timer > 0 /\ m.sound_timer = 1 THEN TRUE ELSE m.make_beep
        s == IF m.sound_timer > 0 THEN m.sound_timer - 1 ELSE m.sound_timer
    IN  [m EXCEPT !.delay_timer = d, !.sound_timer = s, !.make_beep = b]

(* a fetch that checks the address of the first byte alone *)
FetchInBounds_first_byte(m) == m.pc < MEMORY_SIZE

(* Chip8::get_opcode : the two indexings panic outside the 4096 bytes *)
FetchInBounds(m) == m.pc < MEMORY_SIZE /\ m.pc + 1 < MEMORY_SIZE

get_opcode(m) == MemRead(m.memory, m.pc) * 256 + MemRead(m.memory, m.pc + 1)

(* `self.pc += k` on a u16 *)
advance_pc(m, k, chk) ==
    IF m.pc + k >= U16
    THEN IF chk THEN Panic(m) ELSE Ok([m EXCEPT !.pc = (m.pc + k) % U16])
    ELSE Ok([m EXCEPT !.pc = m.pc + k])

(* `if cond { self.pc += 2; } self.pc += 2;` *)
skip_if(m, cond, chk) ==
    IF cond
    THEN LET r == advance_pc(m, 2, chk)
         IN  IF r.panic THEN r ELSE advance_pc(r.cpu, 2, chk)
    ELSE advance_pc(m, 2, chk)

----------------------------------------------------------------------------
(* Chip8::execute_opcode, one operator per match arm.  m is the machine,   *)
(* opcode the fetched word, chk the build's overflow checks.               *)

(* 00E0 - CLS (any group-0 opcode whose low nibble is 0) *)
op_CLS(m, chk) ==
    advance_pc([m EXCEPT !.gfx = {}], 2, chk)

(* RET without the `self.pc += 2` *)
op_RET_no_advance(m, chk) ==
    IF m.sp = 0
    THEN IF chk THEN Panic(m) ELSE Panic([m EXCEPT !.sp = U16 - 1])
    ELSE LET m1 == [m EXCEPT !.sp = m.sp - 1]
         IN  IF m1.sp >= STACK_SIZE
             THEN Panic(m1)
             ELSE Ok([m1 EXCEPT !.pc = m1.stack[m1.sp]])

(* RET with the stack pointer wrapping inside the stack instead of a panic *)
op_RET_wrapping(m, chk) ==
    LET m1 == [m EXCEPT !.sp = (m.sp + STACK_SIZE - 1) % STACK_SIZE]
    IN  advance_pc([m1 EXCEPT !.pc = m1.stack[m1.sp]], 2, chk)

(* 00EE - RET (any group-0 opcode whose low nibble is E) *)
op_RET(m, chk) ==
    IF m.sp = 0
    THEN \* `self.sp -= 1` overflows: a panic with checks; without, sp wraps
         \* and `self.stack[65535]` panics
         IF chk THEN Panic(m) ELSE Panic([m EXCEPT !.sp = U16 - 1])
    ELSE LET m1 == [m EXCEPT !.sp = m.sp - 1]
         IN  IF m1.sp >= STACK_SIZE
             THEN Panic(m1)
             ELSE advance_pc([m1 EXCEPT !.pc = m1.stack[m1.sp]], 2, chk)

(* 0nnn - SYS addr: the `_ => {}` arm *)
op_SYS(m) == Ok(m)

(* 1nnn - JP addr *)
op_JP(m, opcode) == Ok([m EXCEPT !.pc = FieldNNN(opcode)])

(* CALL that drops the write on a full stack and goes on *)
op_CALL_unchecked(m, opcode, chk) ==
    LET m1 == IF m.sp < STACK_SIZE THEN [m EXCEPT !.stack[m.sp] = m.pc] ELSE m
    IN  Ok([m1 EXCEPT !.sp = (m1.sp + 1) % U16, !.pc = FieldNNN(opcode)])

(* 2nnn - CALL addr *)
op_CALL(m, opcode, chk) ==
    IF m.sp >= STACK_SIZE
    THEN Panic(m)                \* `self.stack[self.sp as usize] = ...` out of bounds
    ELSE LET m1 == [m EXCEPT !.stack[m.sp] = m.pc]
         IN  IF m1.sp + 1 >= U16 /\ chk
             THEN Panic(m1)
             ELSE Ok([m1 EXCEPT !.sp = (m1.sp + 1) % U16, !.pc = FieldNNN(opcode)])

(* 3xkk - SE Vx, byte *)
op_SE_byte(m, opcode, chk) ==
    skip_if(m, m.V[FieldX(opcode)] = FieldKK(opcode), chk)

(* 4xkk - SNE Vx, byte *)
op_SNE_byte(m, opcode, chk) ==
    skip_if(m, m.V[FieldX(opcode)] # FieldKK(opcode), chk)

(* 5xy0 - SE Vx, Vy (the low nibble is not looked at) *)
op_SE_reg(m, opcode, chk) ==
    skip_if(m, m.V[FieldX(opcode)] = m.V[FieldY(opcode)], chk)

(* 6xkk - LD Vx, byte *)
op_LD_byte(m, opcode, chk) ==
    advance_pc([m EXCEPT !.V[FieldX(opcode)] = FieldKK(opcode)], 2, chk)

(* ADD Vx, byte that stops at 255 instead of wrapping *)
op_ADD_byte_saturating(m, opcode, chk) ==
    LET sum == m.V[FieldX(opcode)] + FieldKK(opcode)
    IN  advance_pc([m EXCEPT !.V[FieldX(opcode)] = IF sum >= U8 THEN U8 - 1 ELSE sum], 2, chk)

(* 7xkk - ADD Vx, byte (wrapping_add) *)
op_ADD_byte(m, opcode, chk) ==
    advance_pc([m EXCEPT !.V[FieldX(opcode)] = (@ + FieldKK(opcode)) % U8], 2, chk)

(* 8xy0 - LD Vx, Vy *)
op_LD_reg(m, x, y, chk) ==
    advance_pc([m EXCEPT !.V[x] = m.V[y]], 2, chk)

(* 8xy1 - OR Vx, Vy *)
op_OR(m, x, y, chk) ==
    advance_pc([m EXCEPT !.V[x] = BitOr(m.V[x], m.V[y])], 2, chk)

(* 8xy2 - AND Vx, Vy *)
op_AND(m, x, y, chk) ==
    advance_pc([m EXCEPT !.V[x] = BitAnd(m.V[x], m.V[y])], 2, chk)

(* 8xy3 - XOR Vx, Vy *)
op_XOR(m, x, y, chk) ==
    advance_pc([m EXCEPT !.V[x] = BitXor(m.V[x], m.V[y])], 2, chk)

(* ADD Vx, Vy with the carry taken from the top bit of the sum *)
op_ADD_reg_carry_from_sum(m, x, y, chk) ==
    LET vx    == m.V[x]
        vy    == m.V[y]
        sum   == (vx + vy) % U8
        m1    == [m  EXCEPT !.V[x] = sum]
        m2    == [m1 EXCEPT !.V[15] = sum \div 128]
    IN  advance_pc(m2, 2, chk)

(* 8xy4 - ADD Vx, Vy : V[x] = sum, then V[F] = carry *)
op_ADD_reg(m, x, y, chk) ==
    LET vx    == m.V[x]
        vy    == m.V[y]
        sum   == (vx + vy) % U8
        carry == vx + vy >= U8
        m1    == [m  EXCEPT !.V[x] = sum]
        m2    == [m1 EXCEPT !.V[15] = IF carry THEN 1 ELSE 0]
    IN  advance_pc(m2, 2, chk)

(* SUB Vx, Vy with the flag set on Vx > Vy alone *)
op_SUB_strict(m, x, y, chk) ==
    LET vx     == m.V[x]
        vy     == m.V[y]
        diff   == (vx - vy + U8) % U8
        m1     == [m  EXCEPT !.V[x] = diff]
        m2     == [m1 EXCEPT !.V[15] = IF vx > vy THEN 1 ELSE 0]
    IN  advance_pc(m2, 2, chk)

(* 8xy5 - SUB Vx, Vy : V[x] = diff, then V[F] = NOT borrow *)
op_SUB(m, x, y, chk) ==
    LET vx     == m.V[x]
        vy     == m.V[y]
        diff   == (vx - vy + U8) % U8
        borrow == vx < vy
        m1     == [m  EXCEPT !.V[x] = diff]
        m2     == [m1 EXCEPT !.V[15] = IF borrow THEN 0 ELSE 1]
    IN  advance_pc(m2, 2, chk)

(* SHR Vx with the flag taken after the shift *)
op_SHR_flag_after(m, x, chk) ==
    LET m1 == [m  EXCEPT !.V[x] = m.V[x] \div 2]
        m2 == [m1 EXCEPT !.V[15] = m1.V[x] % 2]
    IN  advance_pc(m2, 2, chk)

(* 8xy6 - SHR Vx : V[x] >>= 1, then V[F] = old low bit *)
op_SHR(m, x, chk) ==
    LET vx == m.V[x]
        m1 == [m  EXCEPT !.V[x] = vx \div 2]
        m2 == [m1 EXCEPT !.V[15] = vx % 2]
    IN  advance_pc(m2, 2, chk)

(* 8xy7 - SUBN Vx, Vy : V[x] = Vy - Vx, then V[F] = NOT borrow *)
op_SUBN(m, x, y, chk) ==
    LET vx     == m.V[x]
        vy     == m.V[y]
        diff   == (vy - vx + U8) % U8
        borrow == vy < vx
        m1     == [m  EXCEPT !.V[x] = diff]
        m2     == [m1 EXCEPT !.V[15] = IF borrow THEN 0 ELSE 1]
    IN  advance_pc(m2, 2, chk)

(* SHL Vx with the flag written first and the result last *)
op_SHL_result_last(m, x, chk) ==
    LET vx == m.V[x]
        m1 == [m  EXCEPT !.V[15] = (vx \div 128) % 2]
        m2 == [m1 EXCEPT !.V[x] = (vx * 2) % U8]
    IN  advance_pc(m2, 2, chk)

(* 8xyE - SHL Vx : V[x] <<= 1, then V[F] = old high bit *)
op_SHL(m, x, chk) ==
    LET vx == m.V[x]
        m1 == [m  EXCEPT !.V[x] = (vx * 2) % U8]
        m2 == [m1 EXCEPT !.V[15] = (vx \div 128) % 2]
    IN  advance_pc(m2, 2, chk)

(* group 8: dispatch on the low nibble; the other nibbles are unreachable!() *)
exec_group8(m, opcode, chk) ==
    LET x == FieldX(opcode)
        y == FieldY(opcode)
        n == FieldN(opcode)
    IN  CASE n = 0  -> op_LD_reg(m, x, y, chk)
          [] n = 1  -> op_OR(m, x, y, chk)
          [] n = 2  -> op_AND(m, x, y, chk)
          [] n = 3  -> op_XOR(m, x, y, chk)
          [] n = 4  -> op_ADD_reg(m, x, y, chk)
          [] n = 5  -> op_SUB(m, x, y, chk)
          [] n = 6  -> op_SHR(m, x, chk)
          [] n = 7  -> op_SUBN(m, x, y, chk)
          [] n = 14 -> op_SHL(m, x, chk)
          [] OTHER  -> Panic(m)

(* 9xy0 - SNE Vx, Vy : pc += 4 or pc += 2 *)
op_SNE_reg(m, opcode, chk) ==
    IF m.V[FieldX(opcode)] # m.V[FieldY(opcode)]
    THEN advance_pc(m, 4, chk)
    ELSE advance_pc(m, 2, chk)

(* Annn - LD I, addr *)
op_LD_I(m, opcode, chk) ==
    advance_pc([m EXCEPT !.I = FieldNNN(opcode)], 2, chk)

(* Bnnn - JP V0, addr : at most 255 + 4095, no overflow *)
op_JP_V0(m, opcode) == Ok([m EXCEPT !.pc = m.V[0] + FieldNNN(opcode)])

(* RND that forgets the mask *)
op_RND_unmasked(m, opcode, rand_byte, chk) ==
    advance_pc([m EXCEPT !.V[FieldX(opcode)] = rand_byte], 2, chk)

(* Cxkk - RND Vx, byte : rand_byte is the value rand::random::<u8>() returned *)
op_RND(m, opcode, rand_byte, chk) ==
    advance_pc([m EXCEPT !.V[FieldX(opcode)] = BitAnd(rand_byte, FieldKK(opcode))], 2, chk)

(* Dxyn - DRW Vx, Vy, nibble *)

(* bit `col` (most significant first) of a sprite byte:
   (byte & (0x80 >> col)) >> (7 - col) *)
SpriteBit(byte, col) == (byte \div (2 ^ (7 - col))) % 2

(* the cell when only the whole index wraps: a row's end spills into the next row *)
PixelIndex_spilling(row, col, vx, vy) ==
    (((row + vy) % SCREEN_HEIGHT) * 64 + (col + (vx % SCREEN_WIDTH))) % GFX_SIZE

(* the cell the inner loop touches for (row, col) *)
PixelIndex(row, col, vx, vy) ==
    ((row + vy) % SCREEN_HEIGHT) * 64 + ((col + vx) % SCREEN_WIDTH)

(* a row that is ORed into the framebuffer instead of XORed *)
draw_row_or(acc, row, byte, vx, vy) ==
    LET ones    == {col \in 0..7 : SpriteBit(byte, col) = 1}
        flipped == {PixelIndex(row, col, vx, vy) : col \in ones}
    IN  [gfx       |-> {p \in acc.gfx \cup flipped : TRUE},
         collision |-> acc.collision \/ (\E p \in flipped : p \in acc.gfx)]

(* The inner loop `for col in 0..8` on one sprite row.  acc = [gfx,
   collision].  The eight cells of a row are distinct (8 < 64), so the
   eight steps `cur_val ^ bit`, `self.gfx[index] = new_val == 1` do not
   read each other's writes: a cell ends on exactly when it was on and its
   bit is 0, or was off and its bit is 1; the row collides when a cell that
   was on has its bit 1. *)
draw_row(acc, row, byte, vx, vy) ==
    LET ones    == {col \in 0..7 : SpriteBit(byte, col) = 1}
        flipped == {PixelIndex(row, col, vx, vy) : col \in ones}
    IN  [gfx       |-> {p \in acc.gfx \cup flipped : ~(p \in acc.gfx /\ p \in flipped)},
         collision |-> acc.collision \/ (\E p \in flipped : p \in acc.gfx)]

(* The outer loop over the n rows of the sprite at memory[base..base + n] *)
RECURSIVE draw_loop(_, _, _, _, _, _, _)
draw_loop(acc, row, n, base, mem, vx, vy) ==
    IF row >= n THEN acc
    ELSE draw_loop(draw_row(acc, row, MemRead(mem, base + row), vx, vy),
                   row + 1, n, base, mem, vx, vy)

(* DRW that raises VF on a collision and leaves it alone otherwise *)
op_DRW_flag_not_reset(m, opcode, chk) ==
    LET vx == m.V[FieldX(opcode)]
        vy == m.V[FieldY(opcode)]
        n  == FieldN(opcode)
    IN  IF m.I + n > MEMORY_SIZE
        THEN Panic(m)
        ELSE LET res == draw_loop([gfx |-> m.gfx, collision |-> FALSE],
                                  0, n, m.I, m.memory, vx, vy)
                 m1  == [m  EXCEPT !.gfx = res.gfx]
                 m2  == IF res.collision THEN [m1 EXCEPT !.V[15] = 1] ELSE m1
             IN  advance_pc(m2, 2, chk)

op_DRW(m, opcode, chk) ==
    LET vx == m.V[FieldX(opcode)]
        vy == m.V[FieldY(opcode)]
        n  == FieldN(opcode)
    IN  IF m.I + n > MEMORY_SIZE
        THEN Panic(m)            \* `&self.memory[I..I + n]` : range end out of bounds
        ELSE LET res == draw_loop([gfx |-> m.gfx, collision |-> FALSE],
                                  0, n, m.I, m.memory, vx, vy)
                 m1  == [m  EXCEPT !.gfx = res.gfx]
                 m2  == [m1 EXCEPT !.V[15] = IF res.collision THEN 1 ELSE 0]
             IN  advance_pc(m2, 2, chk)

(* Ex9E - SKP Vx (any group-E opcode whose low nibble is E) *)
op_SKP(m, opcode, chk) ==
    LET vx == m.V[FieldX(opcode)]
    IN  IF vx >= NUM_KEYS
        THEN Panic(m)            \* `self.key_states[vx as usize]` out of bounds
        ELSE skip_if(m, m.key_states[vx], chk)

(* ExA1 - SKNP Vx (any group-E opcode whose low nibble is 1) *)
op_SKNP(m, opcode, chk) ==
    LET vx == m.V[FieldX(opcode)]
    IN  IF vx >= NUM_KEYS
        THEN Panic(m)
        ELSE skip_if(m, ~m.key_states[vx], chk)

exec_groupE(m, opcode, chk) ==
    CASE FieldN(opcode) = 14 -> op_SKP(m, opcode, chk)
      [] FieldN(opcode) = 1  -> op_SKNP(m, opcode, chk)
      [] OTHER               -> Panic(m)

(* Fx07 - LD Vx, DT *)
op_LD_Vx_DT(m, x, chk) ==
    advance_pc([m EXCEPT !.V[x] = m.delay_timer], 2, chk)

(* LD Vx, K that goes on to the next instruction when no key is down *)
op_LD_Vx_K_nonblocking(m, x, chk) ==
    IF \E k \in 0..(NUM_KEYS - 1) : m.key_states[k]
    THEN advance_pc([m EXCEPT !.V[x] = CHOOSE k \in 0..(NUM_KEYS - 1) : m.key_states[k]], 2, chk)
    ELSE advance_pc(m, 2, chk)

(* Fx0A - LD Vx, K : the loop over all 16 keys, i = the key being looked at *)
RECURSIVE key_loop(_, _, _, _)
key_loop(r, i, x, chk) ==
    IF i >= NUM_KEYS \/ r.panic THEN r
    ELSE IF r.cpu.key_states[i]
         THEN key_loop(advance_pc([r.cpu EXCEPT !.V[x] = i], 2, chk), i + 1, x, chk)
         ELSE key_loop(r, i + 1, x, chk)

op_LD_Vx_K(m, x, chk) == key_loop(Ok(m), 0, x, chk)

(* Fx15 - LD DT, Vx *)
op_LD_DT_Vx(m, x, chk) ==
    advance_pc([m EXCEPT !.delay_timer = m.V[x]], 2, chk)

(* Fx18 - LD ST, Vx *)
op_LD_ST_Vx(m, x, chk) ==
    advance_pc([m EXCEPT !.sound_timer = m.V[x]], 2, chk)

(* Fx1E - ADD I, Vx : `self.I += ...` on a u16 *)
op_ADD_I(m, x, chk) ==
    IF m.I + m.V[x] >= U16 /\ chk
    THEN Panic(m)
    ELSE advance_pc([m EXCEPT !.I = (m.I + m.V[x]) % U16], 2, chk)

(* Fx29 - LD F, Vx : `(vx * 0x5) as u16`, the product is a u8 *)
op_LD_F(m, x, chk) ==
    LET vx == m.V[x]
    IN  IF vx * 5 >= U8 /\ chk
        THEN Panic(m)
        ELSE advance_pc([m EXCEPT !.I = (vx * 5) % U8], 2, chk)

(* LD B, Vx whose tens digit is Vx / 10 without the `% 10` *)
op_LD_B_tens_unreduced(m, x, chk) ==
    LET vx == m.V[x]
    IN  IF m.I >= MEMORY_SIZE THEN Panic(m)
        ELSE LET m1 == [m EXCEPT !.memory = MemWrite(@, m.I, vx \div 100)]
             IN  IF m.I + 1 >= MEMORY_SIZE THEN Panic(m1)
                 ELSE LET m2 == [m1 EXCEPT !.memory = MemWrite(@, m.I + 1, vx \div 10)]
                      IN  IF m.I + 2 >= MEMORY_SIZE THEN Panic(m2)
                          ELSE advance_pc([m2 EXCEPT !.memory = MemWrite(@, m.I + 2, vx % 10)],
                                          2, chk)

(* Fx33 - LD B, Vx : three writes, each indexing may panic *)
op_LD_B(m, x, chk) ==
    LET vx == m.V[x]
    IN  IF m.I >= MEMORY_SIZE THEN Panic(m)
        ELSE LET m1 == [m EXCEPT !.memory = MemWrite(@, m.I, vx \div 100)]
             IN  IF m.I + 1 >= MEMORY_SIZE THEN Panic(m1)
                 ELSE LET m2 == [m1 EXCEPT !.memory = MemWrite(@, m.I + 1, (vx \div 10) % 10)]
                      IN  IF m.I + 2 >= MEMORY_SIZE THEN Panic(m2)
                          ELSE advance_pc([m2 EXCEPT !.memory = MemWrite(@, m.I + 2, vx % 10)],
                                          2, chk)

(* Fx55 - LD [I], Vx : `for i in 0..=x { memory[I + i] = V[x] }` *)
RECURSIVE store_loop(_, _, _, _)
store_loop(m, i, x, chk) ==
    IF i > x THEN advance_pc(m, 2, chk)
    ELSE IF m.I + i >= U16 /\ chk THEN Panic(m)
    ELSE IF (m.I + i) % U16 >= MEMORY_SIZE THEN Panic(m)
    ELSE store_loop([m EXCEPT !.memory = MemWrite(@, (m.I + i) % U16, m.V[x])], i + 1, x, chk)

op_LD_I_Vx(m, x, chk) == store_loop(m, 0, x, chk)

(* Fx65 - LD Vx, [I] : `for i in 0..=x { V[x] = memory[I + i] }` *)
RECURSIVE load_loop(_, _, _, _)
load_loop(m, i, x, chk) ==
    IF i > x THEN advance_pc(m, 2, chk)
    ELSE IF m.I + i >= U16 /\ chk THEN Panic(m)
    ELSE IF (m.I + i) % U16 >= MEMORY_SIZE THEN Panic(m)
    ELSE load_loop([m EXCEPT !.V[x] = MemRead(m.memory, (m.I + i) % U16)], i + 1, x, chk)

op_LD_Vx_I(m, x, chk) == load_loop(m, 0, x, chk)

(* group F: dispatch on the low byte; the other bytes are unreachable!() *)
exec_groupF(m, opcode, chk) ==
    LET x  == FieldX(opcode)
        kk == FieldKK(opcode)
    IN  CASE kk = 7   -> op_LD_Vx_DT(m, x, chk)
          [] kk = 10  -> op_LD_Vx_K(m, x, chk)
          [] kk = 21  -> op_LD_DT_Vx(m, x, chk)
          [] kk = 24  -> op_LD_ST_Vx(m, x, chk)
          [] kk = 30  -> op_ADD_I(m, x, chk)
          [] kk = 41  -> op_LD_F(m, x, chk)
          [] kk = 51  -> op_LD_B(m, x, chk)
          [] kk = 85  -> op_LD_I_Vx(m, x, chk)
          [] kk = 101 -> op_LD_Vx_I(m, x, chk)
          [] OTHER    -> Panic(m)

(* group 0: dispatch on the low nibble alone *)
exec_group0(m, opcode, chk) ==
    CASE FieldN(opcode) = 0  -> op_CLS(m, chk)
      [] FieldN(opcode) = 14 -> op_RET(m, chk)
      [] OTHER               -> op_SYS(m)

(* Chip8::execute_opcode *)
execute_opcode(m, rand_byte, chk) ==
    IF ~FetchInBounds(m) THEN Panic(m)
    ELSE LET opcode == get_opcode(m)
             g      == Group(opcode)
         IN  CASE g = 0  -> exec_group0(m, opcode, chk)
               [] g = 1  -> op_JP(m, opcode)
               [] g = 2  -> op_CALL(m, opcode, chk)
               [] g = 3  -> op_SE_byte(m, opcode, chk)
               [] g = 4  -> op_SNE_byte(m, opcode, chk)
               [] g = 5  -> op_SE_reg(m, opcode, chk)
               [] g = 6  -> op_LD_byte(m, opcode, chk)
               [] g = 7  -> op_ADD_byte(m, opcode, chk)
               [] g = 8  -> exec_group8(m, opcode, chk)
               [] g = 9  -> op_SNE_reg(m, opcode, chk)
               [] g = 10 -> op_LD_I(m, opcode, chk)
               [] g = 11 -> op_JP_V0(m, opcode)
               [] g = 12 -> op_RND(m, opcode, rand_byte, chk)
               [] g = 13 -> op_DRW(m, opcode, chk)
               [] g = 14 -> exec_groupE(m, opcode, chk)
               [] OTHER  -> exec_groupF(m, opcode, chk)

(* tick whose timers decay only when the instruction moved the program counter *)
tick_decay_on_advance(m, rand_byte, chk) ==
    LET r == execute_opcode(m, rand_byte, chk)
    IN  IF r.panic \/ r.cpu.pc = m.pc THEN r ELSE Ok(update_timers(r.cpu))

(* tick whose timers decay before the instruction runs *)
tick_decay_first(m, rand_byte, chk) ==
    execute_opcode(update_timers(m), rand_byte, chk)

(* Chip8::tick : execute_opcode, then update_timers (not reached after a panic) *)
tick(m, rand_byte, chk) ==
    LET r == execute_opcode(m, rand_byte, chk)
    IN  IF r.panic THEN r ELSE Ok(update_timers(r.cpu))

----------------------------------------------------------------------------
(* Chip8::decode_instruction.  A text is the sequence of its characters. *)

HexLower == << "0", "1", "2", "3", "4", "5", "6", "7", "8", "9", "a", "b", "c", "d", "e", "f" >>
HexUpper == << "0", "1", "2", "3", "4", "5", "6", "7", "8", "9", "A", "B", "C", "D", "E", "F" >>

(* {v:x}, {v:02x}, {v:03x} and {v:X} (v < 16) *)
FmtHex1(v) == << HexLower[(v % 16) + 1] >>
FmtHex2(v) == << HexLower[((v \div 16) % 16) + 1], HexLower[(v % 16) + 1] >>
FmtHex3(v) == << HexLower[((v \div 256) % 16) + 1] >> \o FmtHex2(v)
FmtReg(v)  == << "V", HexUpper[(v % 16) + 1] >>

(* {:4} on a string: left-aligned, padded with spaces to four characters *)
FmtPad4(name) ==
    name \o [i \in 1..(IF Len(name) < 4 THEN 4 - Len(name) ELSE 0) |-> " "]

(* the arm of execute_opcode's match that an opcode selects *)
execute_arm(opcode) ==
    LET g  == Group(opcode)
        n  == FieldN(opcode)
        kk == FieldKK(opcode)
    IN  CASE g = 0  -> (CASE n = 0 -> "CLS" [] n = 14 -> "RET" [] OTHER -> "SYS")
          [] g = 1  -> "JP"
          [] g = 2  -> "CALL"
          [] g = 3  -> "SE_byte"
          [] g = 4  -> "SNE_byte"
          [] g = 5  -> "SE_reg"
          [] g = 6  -> "LD_byte"
          [] g = 7  -> "ADD_byte"
          [] g = 8  -> (CASE n = 0 -> "LD_reg" [] n = 1 -> "OR" [] n = 2 -> "AND"
                          [] n = 3 -> "XOR" [] n = 4 -> "ADD_reg" [] n = 5 -> "SUB"
                          [] n = 6 -> "SHR" [] n = 7 -> "SUBN" [] n = 14 -> "SHL"
                          [] OTHER -> "unreachable")
          [] g = 9  -> "SNE_reg"
          [] g = 10 -> "LD_I"
          [] g = 11 -> "JP_V0"
          [] g = 12 -> "RND"
          [] g = 13 -> "DRW"
          [] g = 14 -> (CASE n = 14 -> "SKP" [] n = 1 -> "SKNP" [] OTHER -> "unreachable")
          [] OTHER  -> (CASE kk = \h07 -> "LD_Vx_DT" [] kk = \h0A -> "LD_Vx_K"
                          [] kk = \h15 -> "LD_DT_Vx" [] kk = \h18 -> "LD_ST_Vx"
                          [] kk = \h1E -> "ADD_I"    [] kk = \h29 -> "LD_F"
                          [] kk = \h33 -> "LD_B"     [] kk = \h55 -> "LD_I_Vx"
                          [] kk = \h65 -> "LD_Vx_I"  [] OTHER -> "unreachable")

(* a decoder that matches 00E0 and 00EE in full *)
decode_arm_exact_group0(opcode) ==
    IF Group(opcode) = 0
    THEN (CASE opcode = \h00E0 -> "CLS" [] opcode = \h00EE -> "RET" [] OTHER -> "SYS")
    ELSE execute_arm(opcode)

(* the arm of decode_instruction's match that an opcode selects *)
decode_arm(opcode) ==
    LET g  == Group(opcode)
        n  == FieldN(opcode)
        kk == FieldKK(opcode)
    IN  CASE g = 0  -> (CASE n = 0 -> "CLS" [] n = 14 -> "RET" [] OTHER -> "SYS")
          [] g = 1  -> "JP"
          [] g = 2  -> "CALL"
          [] g = 3  -> "SE_byte"
          [] g = 4  -> "SNE_byte"
          [] g = 5  -> "SE_reg"
          [] g = 6  -> "LD_byte"
          [] g = 7  -> "ADD_byte"
          [] g = 8  -> (CASE n = 0 -> "LD_reg" [] n = 1 -> "OR" [] n = 2 -> "AND"
                          [] n = 3 -> "XOR" [] n = 4 -> "ADD_reg" [] n = 5 -> "SUB"
                          [] n = 6 -> "SHR" [] n = 7 -> "SUBN" [] n = 14 -> "SHL"
                          [] OTHER -> "unreachable")
          [] g = 9  -> "SNE_reg"
          [] g = 10 -> "LD_I"
          [] g = 11 -> "JP_V0"
          [] g = 12 -> "RND"
          [] g = 13 -> "DRW"
          [] g = 14 -> (CASE n = 14 -> "SKP" [] n = 1 -> "SKNP" [] OTHER -> "unreachable")
          [] OTHER  -> (CASE kk = \h07 -> "LD_Vx_DT" [] kk = \h0A -> "LD_Vx_K"
                          [] kk = \h15 -> "LD_DT_Vx" [] kk = \h18 -> "LD_ST_Vx"
                          [] kk = \h1E -> "ADD_I"    [] kk = \h29 -> "LD_F"
                          [] kk = \h33 -> "LD_B"     [] kk = \h55 -> "LD_I_Vx"
                          [] kk = \h65 -> "LD_Vx_I"  [] OTHER -> "unreachable")

(* the mnemonic each arm of decode_instruction passes to format! *)
decode_mnemonic(arm) ==
    CASE arm \in {"JP", "JP_V0"}                     -> << "J", "P" >>
      [] arm = "CALL"                                 -> << "C", "A", "L", "L" >>
      [] arm \in {"SE_byte", "SE_reg"}               -> << "S", "E" >>
      [] arm \in {"SNE_byte", "SNE_reg"}             -> << "S", "N", "E" >>
      [] arm \in {"ADD_byte", "ADD_reg", "ADD_I"}    -> << "A", "D", "D" >>
      [] arm = "OR"                                   -> << "O", "R" >>
      [] arm = "AND"                                  -> << "A", "N", "D" >>
      [] arm = "XOR"                                  -> << "X", "O", "R" >>
      [] arm = "SUB"                                  -> << "S", "U", "B" >>
      [] arm = "SHR"                                  -> << "S", "H", "R" >>
      [] arm = "SUBN"                                 -> << "S", "U", "B", "N" >>
      [] arm = "SHL"                                  -> << "S", "H", "L" >>
      [] arm = "RND"                                  -> << "R", "N", "D" >>
      [] arm = "DRW"                                  -> << "D", "R", "W" >>
      [] arm = "SKP"                                  -> << "S", "K", "P" >>
      [] arm = "SKNP"                                 -> << "S", "K", "N", "P" >>
      [] OTHER                                        -> << "L", "D" >>

(* the operands each arm of decode_instruction formats after the mnemonic *)
decode_operands(arm, opcode) ==
    LET x   == FmtReg(FieldX(opcode))
        y   == FmtReg(FieldY(opcode))
        kk  == FmtHex2(FieldKK(opcode))
        nnn == FmtHex3(FieldNNN(opcode))
        sep == << ",", " " >>
    IN  CASE arm \in {"JP", "CALL"}                                -> nnn
          [] arm \in {"SE_byte", "SNE_byte", "LD_byte", "ADD_byte", "RND"}
                                                                    -> x \o sep \o kk
          [] arm \in {"SE_reg", "SNE_reg", "LD_reg", "OR", "AND", "XOR", "ADD_reg",
                      "SUB", "SHR", "SUBN", "SHL"}                  -> x \o sep \o y
          [] arm = "LD_I"                                           -> << "I" >> \o sep \o nnn
          [] arm = "JP_V0"                                          -> << "V", "0" >> \o sep \o nnn
          [] arm = "DRW"             -> x \o sep \o y \o sep \o FmtHex1(FieldN(opcode))
          [] arm \in {"SKP", "SKNP"}                               -> x
          [] arm = "LD_Vx_DT"                                       -> x \o sep \o << "D", "T" >>
          [] arm = "LD_Vx_K"                                        -> x \o sep \o << "K" >>
          [] arm = "LD_DT_Vx"                                       -> << "D", "T" >> \o sep \o x
          [] arm = "LD_ST_Vx"                                       -> << "S", "T" >> \o sep \o x
          [] arm = "ADD_I"                                          -> << "I" >> \o sep \o x
          [] arm = "LD_F"                                           -> << "F" >> \o sep \o x
          [] arm = "LD_B"                                           -> << "B" >> \o sep \o x
          [] arm = "LD_I_Vx"                                        -> << "[", "I", "]" >> \o sep \o x
          [] arm = "LD_Vx_I"                                        -> x \o sep \o << "[", "I", "]" >>

(* Chip8::decode_instruction : the text, or the panic of unreachable!() *)
decode_instruction(opcode) ==
    LET arm == decode_arm(opcode)
    IN  CASE arm = "unreachable" -> [text |-> << >>, panic |-> TRUE]
          [] arm = "CLS"         -> [text |-> << "C", "L", "S" >>, panic |-> FALSE]
          [] arm = "RET"         -> [text |-> << "R", "E", "T" >>, panic |-> FALSE]
          [] arm = "SYS"         -> [text |-> << >>, panic |-> FALSE]
          [] OTHER               ->
                [text  |-> FmtPad4(decode_mnemonic(arm)) \o << " " >> \o decode_operands(arm, opcode),
                 panic |-> FALSE]

----------------------------------------------------------------------------
(* The driver side: src/src/emu.rs and src/src/main.rs *)

(* load_rom that copies the file to address 0 *)
load_rom_at_zero(m, file) ==
    IF ~file.readable \/ Len(file.bytes) > MEMORY_SIZE
    THEN Panic(m)
    ELSE LET rom_bytes == file.bytes
             dest   == 0..(Len(rom_bytes) - 1)
             copied == {a \in dest : rom_bytes[a + 1] # 0}
         IN  Ok([m EXCEPT !.memory =
                    [a \in (DOMAIN m.memory \ dest) \cup copied |->
                        IF a \in dest THEN rom_bytes[a + 1] ELSE m.memory[a]]])

(* Emu::load_rom : std::fs::read(path)? returns the Err of a file that
   cannot be read, which main returns in turn (main.rs:43); the bytes read
   are copied to 0x200.. , and the slice indexing panics when they do not
   fit.  Either way the session ends with the machine untouched. *)
load_rom(m, file) ==
    IF ~file.readable \/ PC_START + Len(file.bytes) > MEMORY_SIZE
    THEN Panic(m)
    ELSE LET rom_bytes == file.bytes
             dest   == PC_START..(PC_START + Len(rom_bytes) - 1)
             copied == {a \in dest : rom_bytes[a - PC_START + 1] # 0}
         IN  Ok([m EXCEPT !.memory =
                    [a \in (DOMAIN m.memory \ dest) \cup copied |->
                        IF a \in dest THEN rom_bytes[a - PC_START + 1] ELSE m.memory[a]]])

(* Emu::update_keystates *)
update_keystates(m, new_keystates) == [m EXCEPT !.key_states = new_keystates]

(* Emu::beep : clears the flag (and prints) *)
beep(m) == [m EXCEPT !.make_beep = FALSE]

(* progress that signals the beep and leaves the flag up *)
progress_flag_left_up(m, rand_byte, chk) ==
    LET r == tick(m, rand_byte, chk)
    IN  [cpu |-> r.cpu, panic |-> r.panic, beeped |-> ~r.panic /\ r.cpu.make_beep]

(* Emu::progress : tick, then beep() if make_beep; beeped = beep() was called *)
progress(m, rand_byte, chk) ==
    LET r == tick(m, rand_byte, chk)
    IN  IF r.panic THEN [cpu |-> r.cpu, panic |-> TRUE, beeped |-> FALSE]
        ELSE IF r.cpu.make_beep
             THEN [cpu |-> beep(r.cpu), panic |-> FALSE, beeped |-> TRUE]
             ELSE [cpu |-> r.cpu, panic |-> FALSE, beeped |-> FALSE]

(* Gui::ui, the "CPU State" window: get_opcode for the "Next opcode" label,
   then decode_instruction(get_opcode) for "Next Instruction" *)
ui_next_instruction(m) ==
    IF ~FetchInBounds(m)
    THEN [label |-> [drawn |-> TRUE, shown |-> FALSE, op |-> -1, text |-> << >>],
          panic |-> TRUE]
    ELSE LET d == decode_instruction(get_opcode(m))
         IN  [label |-> [drawn |-> TRUE, shown |-> ~d.panic, op |-> get_opcode(m),
                         text |-> d.text],
              panic |-> d.panic]

----------------------------------------------------------------------------
(* Inputs: the ROM files and key snapshots the model runs *)

(* a program as 16-bit words -> the bytes of the ROM file, big-endian *)
RomBytes(words) ==
    [i \in 1..(2 * Len(words)) |->
        IF i % 2 = 1 THEN words[(i + 1) \div 2] \div 256 ELSE words[i \div 2] % 256]

(* count jump-to-self instructions (1nnn with nnn its own address), the
   first at address start: a program that has stopped *)
Halt(start, count) == [i \in 1..count |-> \h1000 + start + 2 * (i - 1)]

(* keys 0..KeyBound-1 are pressed in every combination *)
KeyBound == 2

KeySnapshots ==
    { [k \in 0..(NUM_KEYS - 1) |-> k \in S] : S \in SUBSET (0..(KeyBound - 1)) }

(* the file a ROM is read from: the bytes of the words, or a path that
   cannot be read *)
RomFile(words) == [readable |-> TRUE, bytes |-> RomBytes(words)]

MissingFile == [readable |-> FALSE, bytes |-> << >>]

(* rand::random::<u8>() returns any byte; it is called in the Cxkk arm
   alone, so any other tick draws nothing *)
RandBytes == 0..(U8 - 1)

RandDraws(m) ==
    IF FetchInBounds(m) /\ Group(get_opcode(m)) = 12 THEN RandBytes ELSE {0}

(* nested calls and returns, steered by key 0:
     200: SKP V0     key 0 pressed -> 204
     202: CALL 200   one level deeper
     204: CALL 208   call that is followed at once by a return
     206: RET        back to the level above
     208: RET                                                              *)
RomCallRet == << \hE09E, \h2200, \h2208, \h00EE, \h00EE >>

(* timers started from V0, then a wait for a key into V3 *)
RomWaitKey(t) ==
    << \h6000 + t, \hF015, \hF018, \hF30A >> \o Halt(\h208, KeyBound + 2)

(* V0 = kk, then a key skip on V0 *)
RomKeySkip(kk, skip) == << \h6000 + kk, skip >> \o Halt(\h204, 2)

(* timers started, then a group-0 opcode that is neither 00E0 nor 00EE *)
RomSys(nnn) == << \h6003, \hF015, \hF018, nnn >> \o Halt(\h208, 1)

(* V0, V1, V2 = 11, 22, 33 (hex), I = nnn, then one instruction on them *)
RomProbe(nnn, op) ==
    << \h6011, \h6122, \h6233, \hA000 + nnn, op >> \o Halt(\h20A, 1)

(* I = 0x123, V0 = kk, then LD F, V0 *)
RomGlyph(kk) == << \hA123, \h6000 + kk, \hF029 >> \o Halt(\h206, 1)

(* Vx = a, Vy = b, then the group-8 instruction n on Vx, Vy *)
AluLeft  == {0, 1, 3, 5, \h81, \hFF}
AluRight == {0, 1, 5, 10, \hFF}

RomAlu(x, y, a, b, n) ==
    << \h6000 + 256 * x + a, \h6000 + 256 * y + b, \h8000 + 256 * x + 16 * y + n >>
    \o Halt(\h206, 1)

(* Vx = a, then ADD Vx, kk and ADD Vx, (256 - kk) mod 256 *)
RomAddImm(x, a, kk) ==
    << \h6000 + 256 * x + a, \h7000 + 256 * x + kk, \h7000 + 256 * x + ((256 - kk) % 256) >>
    \o Halt(\h206, 1)

(* V0 = vx, V1 = vy, VF = 0x3D, I = addr, the instruction pre, then the draw
   op three times; the sprite FF 81 3C follows the program at 0x212 *)
RomDraw(vx, vy, addr, pre, op) ==
    << \h6000 + vx, \h6100 + vy, \h6F3D, \hA000 + addr, pre, op, op, op >>
    \o Halt(\h210, 1) \o << \hFF81, \h3C00 >>

(* RND V0, kk *)
RomRnd(kk) == << \hC000 + kk >> \o Halt(\h202, 1)

(* I = 0x300, V0 = kk, then LD B, V0 *)
RomBcd(kk) == << \hA300, \h6000 + kk, \hF033 >> \o Halt(\h206, 1)

(* V0 = t, DT = V0, V1 = DT, ST = V0, V2 = DT *)
RomTimers(t) == << \h6000 + t, \hF015, \hF107, \hF018, \hF207 >> \o Halt(\h20A, 1)

(* the glyph 0 drawn at (0, 0), then a group-0 opcode *)
RomAfterDraw(op) == << \hA000, \hD005, op >> \o Halt(\h206, 1)

(* both timers loaded, then a call to 0x20A, where a group-0 opcode sits;
   0x208 is a jump to itself *)
RomAfterCall(op) ==
    << \h6003, \hF015, \hF018, \h220A, \h1208, op >> \o Halt(\h20C, 1)

(* a jump that leaves the program counter at or behind the last byte *)
RomJumpOut(v0, jp) == << \h6000 + v0, jp >>

(* no program at all: zeroed memory from 0x200 on, entered near its end *)
RomRunOff == << \h1FFC >>

Roms ==
    { RomCallRet, RomRunOff }
    \cup { RomWaitKey(t) : t \in {0, 1, 3} }
    \cup { RomKeySkip(kk, skip) : kk \in {0, 1, 15, 16, 255}, skip \in {\hE09E, \hE0A1} }
    \cup { RomSys(nnn) : nnn \in {\h0001, \h0123, \h00E1} }
    \cup { RomProbe(nnn, op) : nnn \in {\h300, \hFFE},
                               op \in {\hF055, \hF255, \hFF55, \hF033, \hF265, \hD125, \hD12F} }
    \cup { RomGlyph(kk) : kk \in {10, 51, 52, 255} }
    \cup { RomAlu(x, 1, a, b, n) : x \in {0, 15}, a \in AluLeft, b \in AluRight,
                                   n \in {4, 5, 6, 7, 14} }
    \cup { RomAlu(x, x, 0, b, n) : x \in {0, 15}, b \in {\h81, \hFF}, n \in {4, 5, 6, 7, 14} }
    \cup { RomAddImm(x, a, kk) : x \in {0, 15}, a \in {0, 1, \h80, \hFF},
                                 kk \in {0, 1, 5, \h80, \hFF} }
    \cup { RomDraw(vx, vy, \h212, pre, op) :
              vx \in {0, 60, 255}, vy \in {0, 30, 255}, pre \in {\h6F3D, \hD011},
              op \in {\hD010, \hD012, \hD01F, \hDF12, \hD0F2} }
    \cup { RomDraw(60, 30, \h300, pre, \hD015) : pre \in {\h6F3D, \hD011} }
    \cup { RomRnd(kk) : kk \in {\h00, \h0F, \hFF} }
    \cup { RomBcd(kk) : kk \in {0, 9, 99, 100, 156, 255} }
    \cup { RomTimers(t) : t \in {0, 1, 3} }
    \cup { RomAfterDraw(op) : op \in {\h0000, \h0120, \h00E0, \h6000} }
    \cup { RomAfterCall(op) : op \in {\h012E, \h00EE} }
    \cup { RomJumpOut(0, \h1FFF), RomJumpOut(1, \hBFFE), RomJumpOut(\hFF, \hBFFF) }
    \cup { RomProbe(nnn, op) : nnn \in {\h000, \h04D, \h04F, \h050},
                               op \in {\hF055, \hF033, \hF265} }

----------------------------------------------------------------------------
(* Opcode classes, as execute_opcode matches them *)

IsCLS(op)  == op >= 0 /\ Group(op) = 0 /\ FieldN(op) = 0
IsRET(op)  == op >= 0 /\ Group(op) = 0 /\ FieldN(op) = 14
IsSYS(op)  == op >= 0 /\ Group(op) = 0 /\ FieldN(op) \notin {0, 14}
IsJP(op)   == op >= 0 /\ Group(op) = 1
IsCALL(op) == op >= 0 /\ Group(op) = 2
IsLD_Vx_K(op)  == op >= 0 /\ Group(op) = 15 /\ FieldKK(op) = \h0A
IsLD_DT_Vx(op) == op >= 0 /\ Group(op) = 15 /\ FieldKK(op) = \h15
IsLD_ST_Vx(op) == op >= 0 /\ Group(op) = 15 /\ FieldKK(op) = \h18
IsLD_I_Vx(op)  == op >= 0 /\ Group(op) = 15 /\ FieldKK(op) = \h55
IsLD_Vx_I(op)  == op >= 0 /\ Group(op) = 15 /\ FieldKK(op) = \h65
IsLD_B(op)     == op >= 0 /\ Group(op) = 15 /\ FieldKK(op) = \h33
IsADD_byte(op) == op >= 0 /\ Group(op) = 7
IsADD_reg(op)  == op >= 0 /\ Group(op) = 8 /\ FieldN(op) = 4
IsSUB(op)      == op >= 0 /\ Group(op) = 8 /\ FieldN(op) = 5
IsSHR(op)      == op >= 0 /\ Group(op) = 8 /\ FieldN(op) = 6
IsSUBN(op)     == op >= 0 /\ Group(op) = 8 /\ FieldN(op) = 7
IsSHL(op)      == op >= 0 /\ Group(op) = 8 /\ FieldN(op) = 14
IsDRW(op)      == op >= 0 /\ Group(op) = 13
IsJP_V0(op)    == op >= 0 /\ Group(op) = 11
IsRND(op)      == op >= 0 /\ Group(op) = 12
IsLD_Vx_DT(op) == op >= 0 /\ Group(op) = 15 /\ FieldKK(op) = \h07
IsLD_F(op)     == op >= 0 /\ Group(op) = 15 /\ FieldKK(op) = \h29

(* the words that reach no unreachable!() arm of execute_opcode *)
Recognized(op) ==
    /\ op >= 0
    /\ Group(op) = 8  => FieldN(op) \in (0..7) \cup {14}
    /\ Group(op) = 14 => FieldN(op) \in {1, 14}
    /\ Group(op) = 15 => FieldKK(op) \in {\h07, \h0A, \h15, \h18, \h1E, \h29, \h33, \h55, \h65}

----------------------------------------------------------------------------
(* State machine *)

(* what a tick started from: the machine without its two big arrays, the
   word fetched (-1: the fetch was out of bounds), the key latch if the
   instruction scans it (Fx0A), the innermost open call site, the
   framebuffer, whether the tick changed memory / the glyph table /
   the framebuffer, and the addresses whose byte it changed *)
HistEntry(m, r, open_calls) ==
    LET op == IF FetchInBounds(m) THEN get_opcode(m) ELSE -1
    IN  [ op          |-> op,
          pc          |-> m.pc,
          sp          |-> m.sp,
          V           |-> m.V,
          I           |-> m.I,
          stack       |-> m.stack,
          delay_timer |-> m.delay_timer,
          sound_timer |-> m.sound_timer,
          make_beep   |-> m.make_beep,
          keys_seen   |-> IF IsLD_Vx_K(op) THEN {k \in 0..(NUM_KEYS - 1) : m.key_states[k]}
                          ELSE {},
          call_site   |-> IF open_calls = << >> THEN -1 ELSE open_calls[Len(open_calls)],
          gfx         |-> m.gfx,
          mem_same    |-> r.cpu.memory = m.memory,
          mem_diff    |-> {a \in DOMAIN m.memory \cup DOMAIN r.cpu.memory :
                              MemRead(r.cpu.memory, a) # MemRead(m.memory, a)},
          glyphs_same |-> \A a \in 0..(SPRITES_LEN - 1) :
                              MemRead(r.cpu.memory, a) = MemRead(m.memory, a),
          gfx_same    |-> r.cpu.gfx = m.gfx ]

(* the older entry keeps the instruction, where it ran and what it ran on *)
Older(h) ==
    IF h = << >> THEN << >>
    ELSE << [op |-> h[1].op, pc |-> h[1].pc, sp |-> h[1].sp,
             V |-> h[1].V, I |-> h[1].I, gfx |-> h[1].gfx] >>

(* the call sites still open after a tick that fetched op at pc *)
CallsAfter(open_calls, op, at, panic) ==
    IF panic THEN open_calls
    ELSE IF IsCALL(op) THEN Append(open_calls, at)
    ELSE IF IsRET(op) /\ open_calls # << >> THEN SubSeq(open_calls, 1, Len(open_calls) - 1)
    ELSE open_calls

(* no pass of Gui::ui yet over this machine state *)
NoLabel == [drawn |-> FALSE, shown |-> FALSE, op |-> -1, text |-> << >>]

Init ==
    /\ cpu = new
    /\ rom_loaded = FALSE
    /\ panicked = FALSE
    /\ overflow_checks \in BOOLEAN
    /\ hist = << >>
    /\ calls = << >>
    /\ label = NoLabel

(* main.rs:42-43 : Emu::default(), then load_rom, once, before the event loop *)
LoadRom ==
    /\ ~rom_loaded
    /\ ~panicked
    /\ \E file \in { RomFile(words) : words \in Roms } \cup { MissingFile } :
          LET r == load_rom(cpu, file)
          IN  /\ cpu' = r.cpu
              /\ panicked' = r.panic
    /\ rom_loaded' = TRUE
    /\ UNCHANGED <<overflow_checks, hist, calls, label>>

(* main.rs:60-64 : the driver overwrites the key latch between ticks *)
UpdateKeystates ==
    /\ rom_loaded
    /\ ~panicked
    /\ \E ks \in KeySnapshots : cpu' = update_keystates(cpu, ks)
    /\ UNCHANGED <<rom_loaded, panicked, overflow_checks, hist, calls, label>>

(* one call of Emu::progress: the Step button (gui.rs:51-53) or one turn of
   the run loop (main.rs:76-80).  The history entry keeps whether the tick
   left the beep flag up (beep_pending) and whether beep() was called. *)
Progress ==
    /\ rom_loaded
    /\ ~panicked
    /\ \E rand_byte \in RandDraws(cpu) :
          LET r == progress(cpu, rand_byte, overflow_checks)
              e == [beeped       |-> r.beeped,
                    beep_pending |-> tick(cpu, rand_byte, overflow_checks).cpu.make_beep]
                      @@ HistEntry(cpu, r, calls)
          IN  /\ cpu' = r.cpu
              /\ panicked' = r.panic
              /\ hist' = <<e>> \o Older(hist)
              /\ calls' = CallsAfter(calls, e.op, cpu.pc, r.panic)
    /\ label' = NoLabel
    /\ UNCHANGED <<rom_loaded, overflow_checks>>

(* one pass of Gui::ui over the "CPU State" window (main.rs:89) *)
Ui ==
    /\ rom_loaded
    /\ ~panicked
    /\ LET r == ui_next_instruction(cpu)
       IN  /\ label' = r.label
           /\ panicked' = r.panic
    /\ UNCHANGED <<cpu, rom_loaded, overflow_checks, hist, calls>>

Next == LoadRom \/ UpdateKeystates \/ Progress \/ Ui

Spec == Init /\ [][Next]_vars

----------------------------------------------------------------------------
(* Chip8::tick on its own: the machine after Chip8::new(), a program copied
   to 0x200 and a key snapshot in the latch, ticked again and again with
   nothing in between.  Nothing consumes the beep flag here. *)

TickRoms ==
    { RomWaitKey(t) : t \in {0, 1, 3} }
    \cup { RomTimers(t) : t \in {0, 1, 3} }
    \cup { RomSys(\h0001), RomRnd(\h0F) }

InitTick ==
    /\ \E words \in TickRoms : \E ks \in KeySnapshots :
          cpu = update_keystates(load_rom(new, RomFile(words)).cpu, ks)
    /\ rom_loaded = TRUE
    /\ panicked = FALSE
    /\ overflow_checks \in BOOLEAN
    /\ hist = << >>
    /\ calls = << >>
    /\ label = NoLabel

(* one call of Chip8::tick; beep() is not called *)
Tick ==
    /\ rom_loaded
    /\ ~panicked
    /\ \E rand_byte \in RandDraws(cpu) :
          LET r == tick(cpu, rand_byte, overflow_checks)
              e == [beeped |-> FALSE, beep_pending |-> r.cpu.make_beep]
                      @@ HistEntry(cpu, r, calls)
          IN  /\ cpu' = r.cpu
              /\ panicked' = r.panic
              /\ hist' = <<e>> \o Older(hist)
              /\ calls' = CallsAfter(calls, e.op, cpu.pc, r.panic)
    /\ label' = NoLabel
    /\ UNCHANGED <<rom_loaded, overflow_checks>>

SpecTick == InitTick /\ [][Tick]_vars

----------------------------------------------------------------------------
(* The window over a paused machine (Emu::default has run_steps = true): a
   ROM is loaded and the labels are drawn for the word at 0x200.  The ROMs
   are the single words g A kk, for every group g and low byte kk. *)
DecodeWords ==
    { g * 4096 + 10 * 256 + kk : g \in 0..15, kk \in 0..255 }

LoadWord ==
    /\ ~rom_loaded
    /\ ~panicked
    /\ \E w \in DecodeWords :
          LET r == load_rom(cpu, RomFile(<< w >>))
          IN  /\ cpu' = r.cpu
              /\ panicked' = r.panic
    /\ rom_loaded' = TRUE
    /\ UNCHANGED <<overflow_checks, hist, calls, label>>

NextDecode == LoadWord \/ Ui

SpecDecode == Init /\ [][NextDecode]_vars

(* the last step of the machine was a tick (no pass of Gui::ui since), and
   so was the one before it *)
Ticked  == hist # << >> /\ ~label.drawn
Ticked2 == Ticked /\ Len(hist) = 2
Last    == hist[1]
Before  == hist[2]

TypeOK ==
    /\ cpu.pc \in 0..(U16 - 1)
    /\ cpu.sp \in 0..(U16 - 1)
    /\ cpu.I \in 0..(U16 - 1)
    /\ cpu.delay_timer \in 0..(U8 - 1)
    /\ cpu.sound_timer \in 0..(U8 - 1)
    /\ \A i \in 0..(NUM_REGS - 1) : cpu.V[i] \in 0..(U8 - 1)
    /\ \A i \in 0..(STACK_SIZE - 1) : cpu.stack[i] \in 0..(U16 - 1)
    /\ DOMAIN cpu.memory \subseteq 0..(MEMORY_SIZE - 1)
    /\ \A a \in DOMAIN cpu.memory : cpu.memory[a] \in 1..(U8 - 1)
    /\ cpu.gfx \subseteq 0..(GFX_SIZE - 1)

----------------------------------------------------------------------------
(* Properties *)

(* the value a timer holds when the decay step of the last tick runs: what
   the instruction of that tick left in it *)
DelayAtDecay ==
    IF IsLD_DT_Vx(Last.op) THEN Last.V[FieldX(Last.op)] ELSE Last.delay_timer

SoundAtDecay ==
    IF IsLD_ST_Vx(Last.op) THEN Last.V[FieldX(Last.op)] ELSE Last.sound_timer

(* C1: a call (2nnn) at program counter p and stack depth d, followed by a
   return (00EE) as the next instruction executed, leaves the program
   counter at p + 2 and the stack pointer at d; and every return goes back
   to the innermost call still open (last in, first out), the stack holding
   exactly the open call sites. *)
C1_CallReturnRoundTrip ==
    /\ (Ticked2 /\ IsCALL(Before.op) /\ IsRET(Last.op))
          => (~panicked /\ cpu.pc = Before.pc + 2 /\ cpu.sp = Before.sp)
    /\ (Ticked /\ IsRET(Last.op) /\ ~panicked)
          => (cpu.pc = Last.call_site + 2 /\ cpu.sp = Last.sp - 1)
    /\ ~panicked
          => (cpu.sp = Len(calls) /\ \A i \in 1..Len(calls) : cpu.stack[i - 1] = calls[i])

(* the round trip at the deepest level: a call at depth 15, fifteen calls
   still open below it, and the return from it *)
C1_Witness ==
    /\ Ticked2 /\ IsCALL(Before.op) /\ IsRET(Last.op)
    /\ Before.sp = STACK_SIZE - 1
    /\ Len(calls) = STACK_SIZE - 1
    /\ ~panicked
    /\ cpu.pc = Before.pc + 2

(* C2: in every state a sequence of tick() calls returns, the stack pointer
   is in 0..16. *)
C2_StackPointerRange == ~panicked => cpu.sp \in 0..STACK_SIZE

(* sixteen nested calls: the stack is full *)
C2_Witness == ~panicked /\ Ticked /\ IsCALL(Last.op) /\ cpu.sp = STACK_SIZE

(* C3: a call on a full stack (sp = 16) and a return on an empty stack
   (sp = 0) each end in a panic: the tick does not complete, and execution
   does not go on with a wrapped stack pointer. *)
C3_StackFaultsAreFatal ==
    Ticked =>
       /\ (IsCALL(Last.op) /\ Last.sp = STACK_SIZE) => (panicked /\ cpu.pc = Last.pc)
       /\ (IsRET(Last.op) /\ Last.sp = 0) => (panicked /\ cpu.pc = Last.pc)

(* the seventeenth nested call *)
C3_Witness == Ticked /\ panicked /\ IsCALL(Last.op) /\ Last.sp = STACK_SIZE

(* a return with nothing to return to *)
StackUnderflowReached == Ticked /\ panicked /\ IsRET(Last.op) /\ Last.sp = 0

(* C4: tick() never fails on a recognized opcode: a tick panics only when
   the fetch is out of memory, the word is not a recognized encoding, or it
   is a call on a full stack or a return on an empty one. *)
C4_TickNeverFails ==
    (Ticked /\ panicked) =>
       \/ Last.op = -1
       \/ ~Recognized(Last.op)
       \/ (IsCALL(Last.op) /\ Last.sp = STACK_SIZE)
       \/ (IsRET(Last.op) /\ Last.sp = 0)

(* C5: a tick on wait-for-key (Fx0A) with no key down leaves the program
   counter, registers, index, stack, memory and framebuffer as they were
   (the timers and the beep flag may change); with a key down it moves the
   program counter off the instruction. *)
C5_WaitForKeyBusyWait ==
    (Ticked /\ IsLD_Vx_K(Last.op)) =>
       /\ ~panicked
       /\ IF Last.keys_seen = {}
          THEN /\ cpu.pc = Last.pc
               /\ cpu.V = Last.V
               /\ cpu.I = Last.I
               /\ cpu.stack = Last.stack
               /\ cpu.sp = Last.sp
               /\ Last.mem_same
               /\ Last.gfx_same
          ELSE cpu.pc # Last.pc

(* two waiting ticks in a row on the same instruction, the sound timer
   running down meanwhile *)
C5_Witness ==
    /\ Ticked2 /\ IsLD_Vx_K(Last.op) /\ IsLD_Vx_K(Before.op)
    /\ Last.keys_seen = {}
    /\ Before.pc = Last.pc /\ cpu.pc = Last.pc
    /\ cpu.sound_timer < Last.sound_timer

(* the tick that ends the wait *)
WaitEndedReached ==
    Ticked /\ IsLD_Vx_K(Last.op) /\ Last.keys_seen # {} /\ cpu.pc # Last.pc

(* C6: wait-for-key (Fx0A) with one or more keys down advances the program
   counter by exactly 2, however many keys are down, and sets Vx to the
   index of a key that is down. *)
C6_WaitForKeyAdvancesByTwo ==
    (Ticked /\ IsLD_Vx_K(Last.op) /\ Last.keys_seen # {}) =>
       /\ cpu.pc = Last.pc + 2
       /\ cpu.V[FieldX(Last.op)] \in Last.keys_seen

(* C7: a group-0 opcode other than 00E0 and 00EE advances the program
   counter by 2. *)
C7_SysAdvancesPc ==
    (Ticked /\ Last.op >= 0 /\ Group(Last.op) = 0 /\ Last.op \notin {\h00E0, \h00EE}) =>
       cpu.pc = Last.pc + 2

(* C8: every tick() that returns has decremented each timer by exactly 1 if
   the timer was nonzero when the decay step ran, whatever the opcode and
   whether or not the program counter moved; no timer goes below 0. *)
C8_TimerDecay ==
    (Ticked /\ ~panicked) =>
       /\ cpu.delay_timer = (IF DelayAtDecay > 0 THEN DelayAtDecay - 1 ELSE 0)
       /\ cpu.sound_timer = (IF SoundAtDecay > 0 THEN SoundAtDecay - 1 ELSE 0)
       /\ cpu.delay_timer >= 0
       /\ cpu.sound_timer >= 0

(* a wait-for-key tick that did not advance, both timers running *)
C8_Witness ==
    /\ Ticked /\ ~panicked
    /\ IsLD_Vx_K(Last.op) /\ cpu.pc = Last.pc
    /\ Last.delay_timer > 0 /\ cpu.delay_timer = Last.delay_timer - 1
    /\ Last.sound_timer > 0 /\ cpu.sound_timer = Last.sound_timer - 1

(* timers running under a jump to itself, and under a group-0 no-op *)
DecayUnderSelfJumpReached ==
    Ticked /\ ~panicked /\ IsJP(Last.op) /\ cpu.pc = Last.pc /\ Last.sound_timer > 0

DecayUnderSysReached ==
    Ticked /\ ~panicked /\ IsSYS(Last.op) /\ Last.delay_timer > 0

(* C9 (under SpecTick): a tick sets make_beep exactly when the sound timer is 1 as the decay
   step runs; otherwise make_beep is left as it was, and no tick sets it
   back to false. *)
C9_BeepEdge ==
    Ticked =>
       IF panicked
       THEN cpu.make_beep = Last.make_beep
       ELSE cpu.make_beep = (Last.make_beep \/ SoundAtDecay = 1)

(* the tick on which the sound timer goes from 1 to 0 *)
C9_Witness ==
    /\ Ticked /\ ~panicked
    /\ Last.sound_timer = 1 /\ cpu.sound_timer = 0
    /\ ~Last.make_beep /\ cpu.make_beep

(* a tick that found the flag up and the sound timer at 0 left it up *)
BeepFlagHeldReached ==
    /\ Ticked /\ ~panicked
    /\ Last.make_beep /\ Last.sound_timer = 0 /\ ~IsLD_ST_Vx(Last.op)
    /\ cpu.make_beep

(* C10: store-registers (Fx55) leaves memory[index + i] = Vi for each i in
   0..x, the registers and the index register unchanged, and the program
   counter advanced by 2. *)
C10_StoreRegisters ==
    (Ticked /\ IsLD_I_Vx(Last.op) /\ ~panicked) =>
       /\ \A i \in 0..FieldX(Last.op) : MemRead(cpu.memory, Last.I + i) = Last.V[i]
       /\ cpu.V = Last.V
       /\ cpu.I = Last.I
       /\ cpu.pc = Last.pc + 2

(* C11: load-registers (Fx65) leaves Vi = memory[index + i] for each i in
   0..x, the registers above Vx, memory and the index register unchanged,
   and the program counter advanced by 2. *)
C11_LoadRegisters ==
    (Ticked /\ IsLD_Vx_I(Last.op) /\ ~panicked) =>
       /\ \A i \in 0..FieldX(Last.op) : cpu.V[i] = MemRead(cpu.memory, Last.I + i)
       /\ \A i \in (FieldX(Last.op) + 1)..(NUM_REGS - 1) : cpu.V[i] = Last.V[i]
       /\ Last.mem_same
       /\ cpu.I = Last.I
       /\ cpu.pc = Last.pc + 2

(* memory offsets 0x000..0x04F hold the 80 preloaded character-sprite bytes *)
GlyphsIntact ==
    \A a \in 0..(SPRITES_LEN - 1) : MemRead(cpu.memory, a) = CHARACTER_SPRITES[a + 1]

(* C12 as stated: in every state reachable from Chip8::new() by any sequence
   of tick() calls over any loaded program, memory offsets 0x000..0x04F
   still hold the 80 preloaded character-sprite bytes. *)
C12_GlyphTableNeverOverwritten == GlyphsIntact

(* C12 as amended: the glyph table holds the preloaded bytes when the first
   tick starts (new() and load_rom leave it so), and a tick changes a byte
   of it only by executing a store (Fx33 or Fx55) with the index register
   inside the table (index <= 0x04F). *)
C12_GlyphTableChangedOnlyByStores ==
    /\ hist = << >> => GlyphsIntact
    /\ (Ticked /\ ~Last.glyphs_same) =>
          /\ IsLD_B(Last.op) \/ IsLD_I_Vx(Last.op)
          /\ Last.I < SPRITES_LEN

(* a store-registers with the index inside the table has overwritten a glyph byte *)
C12_Witness ==
    /\ Ticked /\ ~panicked
    /\ IsLD_I_Vx(Last.op) /\ Last.I < SPRITES_LEN
    /\ ~Last.glyphs_same
    /\ ~GlyphsIntact

(* a store right above the table, which leaves it as it was *)
StoreAboveGlyphsReached ==
    /\ Ticked /\ ~panicked
    /\ IsLD_I_Vx(Last.op) /\ Last.I = SPRITES_LEN
    /\ ~Last.mem_same /\ GlyphsIntact

(* the flag each flag-producing register opcode computes from the registers
   it starts from *)
IsFlagOp(op) == IsADD_reg(op) \/ IsSUB(op) \/ IsSUBN(op) \/ IsSHR(op) \/ IsSHL(op)

FlagOf(op, V) ==
    LET vx == V[FieldX(op)]
        vy == V[FieldY(op)]
    IN  CASE IsADD_reg(op) -> IF vx + vy > 255 THEN 1 ELSE 0
          [] IsSUB(op)     -> IF vx >= vy THEN 1 ELSE 0
          [] IsSUBN(op)    -> IF vy >= vx THEN 1 ELSE 0
          [] IsSHR(op)     -> vx % 2
          [] IsSHL(op)     -> vx \div 128

(* the framebuffer cells under the 1 bits of the n-row sprite at
   memory[base..], drawn at (vx, vy): bit c (most significant first) of row
   r lies on cell ((vy + r) mod 32) * 64 + ((vx + c) mod 64) *)
SpriteCells(mem, base, n, vx, vy) ==
    { ((vy + rc[1]) % 32) * 64 + ((vx + rc[2]) % 64) :
        rc \in { q \in (0..(n - 1)) \X (0..7) :
                    (MemRead(mem, base + q[1]) \div (2 ^ (7 - q[2]))) % 2 = 1 } }

(* the sprite cells of the last tick's draw, from the registers it started from *)
LastSpriteCells ==
    SpriteCells(cpu.memory, Last.I, FieldN(Last.op),
                Last.V[FieldX(Last.op)], Last.V[FieldY(Last.op)])

(* the framebuffer g with the cells of c inverted *)
Inverted(g, c) == (g \ c) \cup (c \ g)

(* C13: flag written last.  A flag-producing register opcode (8xy4, 8xy5,
   8xy7, 8xy6, 8xyE) with x = 15 leaves the computed flag in VF, not the
   arithmetic result; a draw whose Vx or Vy is VF takes the coordinate from
   the VF it starts from and then overwrites VF with the collision flag. *)
C13_FlagWrittenLast ==
    (Ticked /\ ~panicked) =>
       /\ (IsFlagOp(Last.op) /\ FieldX(Last.op) = 15)
             => cpu.V[15] = FlagOf(Last.op, Last.V)
       /\ (IsDRW(Last.op) /\ (FieldX(Last.op) = 15 \/ FieldY(Last.op) = 15))
             => /\ cpu.gfx = Inverted(Last.gfx, LastSpriteCells)
                /\ cpu.V[15] = IF LastSpriteCells \cap Last.gfx # {} THEN 1 ELSE 0

(* shift-left of VF = 0x81: the result would be 0x02, the flag is 1 *)
C13_Witness ==
    /\ Ticked /\ ~panicked
    /\ IsSHL(Last.op) /\ FieldX(Last.op) = 15
    /\ Last.V[15] = \h81
    /\ cpu.V[15] = 1

(* a draw at column VF = 0x3D that lit cells there and left VF = 0 *)
DrawAtFlagColumnReached ==
    /\ Ticked /\ ~panicked
    /\ IsDRW(Last.op) /\ FieldX(Last.op) = 15
    /\ Last.V[15] = \h3D
    /\ \E p \in cpu.gfx \ Last.gfx : p % 64 = \h3D
    /\ cpu.V[15] = 0

(* C14: add Vx,Vy (8xy4) sets VF = 1 if and only if Vx + Vy > 255 before the
   instruction, 0 otherwise, and for x # 15 leaves Vx = (Vx + Vy) mod 256. *)
C14_AddCarry ==
    (Ticked /\ ~panicked /\ IsADD_reg(Last.op)) =>
       LET x == FieldX(Last.op)
           y == FieldY(Last.op)
       IN  /\ cpu.V[15] = (IF Last.V[x] + Last.V[y] > 255 THEN 1 ELSE 0)
           /\ x # 15 => cpu.V[x] = (Last.V[x] + Last.V[y]) % 256

(* 0xFF + 0x01 = 0x00, carry 1 *)
C14_Witness ==
    /\ Ticked /\ ~panicked /\ IsADD_reg(Last.op)
    /\ FieldX(Last.op) # 15
    /\ Last.V[FieldX(Last.op)] = \hFF /\ Last.V[FieldY(Last.op)] = \h01
    /\ cpu.V[FieldX(Last.op)] = \h00 /\ cpu.V[15] = 1

(* C15: sub Vx,Vy (8xy5) sets VF = 1 if and only if Vx >= Vy before the
   instruction and, for x # 15, Vx = (Vx - Vy) mod 256; subn Vx,Vy (8xy7)
   sets VF = 1 if and only if Vy >= Vx and, for x # 15, Vx = (Vy - Vx) mod
   256. *)
C15_SubBorrow ==
    (Ticked /\ ~panicked) =>
       LET x  == FieldX(Last.op)
           vx == Last.V[FieldX(Last.op)]
           vy == Last.V[FieldY(Last.op)]
       IN  /\ IsSUB(Last.op) =>
                /\ cpu.V[15] = (IF vx >= vy THEN 1 ELSE 0)
                /\ x # 15 => cpu.V[x] = (vx - vy) % 256
           /\ IsSUBN(Last.op) =>
                /\ cpu.V[15] = (IF vy >= vx THEN 1 ELSE 0)
                /\ x # 15 => cpu.V[x] = (vy - vx) % 256

(* 0x05 - 0x0A = 0xFB, borrow: VF = 0 *)
C15_Witness ==
    /\ Ticked /\ ~panicked /\ IsSUB(Last.op)
    /\ FieldX(Last.op) # 15
    /\ Last.V[FieldX(Last.op)] = \h05 /\ Last.V[FieldY(Last.op)] = \h0A
    /\ cpu.V[FieldX(Last.op)] = \hFB /\ cpu.V[15] = 0

(* subn on the same operands: 0x0A - 0x05 = 0x05, no borrow: VF = 1 *)
SubnNoBorrowReached ==
    /\ Ticked /\ ~panicked /\ IsSUBN(Last.op)
    /\ FieldX(Last.op) # 15
    /\ Last.V[FieldX(Last.op)] = \h05 /\ Last.V[FieldY(Last.op)] = \h0A
    /\ cpu.V[FieldX(Last.op)] = \h05 /\ cpu.V[15] = 1

(* sub of equal operands: 0, and no borrow *)
SubEqualReached ==
    /\ Ticked /\ ~panicked /\ IsSUB(Last.op)
    /\ FieldX(Last.op) # 15 /\ FieldX(Last.op) # FieldY(Last.op)
    /\ Last.V[FieldX(Last.op)] = \hFF /\ Last.V[FieldY(Last.op)] = \hFF
    /\ cpu.V[FieldX(Last.op)] = 0 /\ cpu.V[15] = 1

(* C16: the shifts work on Vx alone.  For x # 15 and every Vy, shift-right
   (8xy6) leaves Vx = floor(Vx / 2) and VF = the low bit of the Vx it
   started from; shift-left (8xyE) leaves Vx = (Vx * 2) mod 256 and VF =
   the high bit of the Vx it started from. *)
C16_ShiftsUseVxAlone ==
    (Ticked /\ ~panicked /\ FieldX(Last.op) # 15) =>
       LET x  == FieldX(Last.op)
           vx == Last.V[FieldX(Last.op)]
       IN  /\ IsSHR(Last.op) => (cpu.V[x] = vx \div 2 /\ cpu.V[15] = vx % 2)
           /\ IsSHL(Last.op) => (cpu.V[x] = (vx * 2) % 256 /\ cpu.V[15] = vx \div 128)

(* 0x03 -> 0x01 with VF = 1, with a Vy that an 8xy6 reading Vy would shift to 0x7F *)
C16_Witness ==
    /\ Ticked /\ ~panicked /\ IsSHR(Last.op)
    /\ FieldX(Last.op) # 15
    /\ Last.V[FieldX(Last.op)] = \h03 /\ Last.V[FieldY(Last.op)] = \hFF
    /\ cpu.V[FieldX(Last.op)] = \h01 /\ cpu.V[15] = 1

(* 0x81 -> 0x02 with VF = 1 *)
ShiftLeftReached ==
    /\ Ticked /\ ~panicked /\ IsSHL(Last.op)
    /\ FieldX(Last.op) # 15
    /\ Last.V[FieldX(Last.op)] = \h81 /\ Last.V[FieldY(Last.op)] = \h0A
    /\ cpu.V[FieldX(Last.op)] = \h02 /\ cpu.V[15] = 1

(* C17: add Vx,kk (7xkk) followed by add Vx,(256 - kk) mod 256 leaves Vx as
   it was before the first, and neither instruction changes another
   register (VF is untouched when x # 15). *)
C17_AddImmediateClosure ==
    /\ (Ticked /\ ~panicked /\ IsADD_byte(Last.op)) =>
          \A i \in 0..(NUM_REGS - 1) : i # FieldX(Last.op) => cpu.V[i] = Last.V[i]
    /\ (Ticked2 /\ ~panicked /\ IsADD_byte(Before.op) /\ IsADD_byte(Last.op)
          /\ FieldX(Before.op) = FieldX(Last.op)
          /\ FieldKK(Last.op) = (256 - FieldKK(Before.op)) % 256)
          => cpu.V = Before.V

(* 0x01 + 0xFF wraps to 0x00, then + 0x01 is 0x01 again; VF stays 0 *)
C17_Witness ==
    /\ Ticked2 /\ ~panicked /\ IsADD_byte(Before.op) /\ IsADD_byte(Last.op)
    /\ FieldX(Before.op) = 0 /\ FieldX(Last.op) = 0
    /\ FieldKK(Before.op) = \hFF /\ FieldKK(Last.op) = \h01
    /\ Before.V[0] = \h01 /\ Last.V[0] = \h00 /\ cpu.V[0] = \h01
    /\ cpu.V[15] = 0

(* two draws in immediate succession with the same opcode, index and
   coordinates (memory is not written between them) *)
SameDrawTwice ==
    /\ Ticked2 /\ ~panicked
    /\ IsDRW(Last.op) /\ Before.op = Last.op
    /\ Before.I = Last.I
    /\ Before.V[FieldX(Last.op)] = Last.V[FieldX(Last.op)]
    /\ Before.V[FieldY(Last.op)] = Last.V[FieldY(Last.op)]

(* C18: draw idempotence.  The same draw executed twice in immediate
   succession leaves the framebuffer as it was before the first, and the
   second draw sets VF = 1 exactly when the first turned on at least one
   pixel that was off, VF = 0 otherwise. *)
C18_DrawIdempotence ==
    SameDrawTwice =>
       /\ cpu.gfx = Before.gfx
       /\ cpu.V[15] = (IF Last.gfx \ Before.gfx # {} THEN 1 ELSE 0)

(* the first draw turned some pixels off and others on; the second restored
   them all and reported the collision *)
C18_Witness ==
    /\ SameDrawTwice
    /\ Before.gfx \ Last.gfx # {}
    /\ Last.gfx \ Before.gfx # {}
    /\ cpu.gfx = Before.gfx
    /\ cpu.V[15] = 1

(* the first draw only turned pixels off: the second turns them back on
   without a collision *)
RedrawWithoutCollisionReached ==
    /\ SameDrawTwice
    /\ Before.gfx \ Last.gfx # {}
    /\ Last.gfx \ Before.gfx = {}
    /\ cpu.gfx = Before.gfx
    /\ cpu.V[15] = 0

(* C19: draw wraparound is per pixel.  Bit c (most significant first) of
   sprite row r is XORed into cell ((Vy + r) mod 32) * 64 + ((Vx + c) mod
   64), for all Vx, Vy in 0..255, and no other cell changes. *)
C19_DrawWrapsPerPixel ==
    (Ticked /\ ~panicked /\ IsDRW(Last.op)) =>
       LET cells == LastSpriteCells
       IN  \A p \in 0..(GFX_SIZE - 1) :
              (p \in cpu.gfx) = ((p \in Last.gfx) # (p \in cells))

(* a row FF drawn at Vx = 60 on an empty screen lights columns 60..63 and
   0..3 of row 0, and the row 81 below it columns 60 and 3 of row 1 *)
C19_Witness ==
    /\ Ticked /\ ~panicked /\ IsDRW(Last.op)
    /\ FieldN(Last.op) = 2
    /\ Last.V[FieldX(Last.op)] = 60 /\ Last.V[FieldY(Last.op)] = 0
    /\ Last.gfx = {}
    /\ cpu.gfx = {60, 61, 62, 63, 0, 1, 2, 3, 64 + 60, 64 + 3}

(* Vy = 255: the first sprite row on screen row 31, the second on row 0 *)
DrawWrapsRowsReached ==
    /\ Ticked /\ ~panicked /\ IsDRW(Last.op)
    /\ FieldN(Last.op) = 2
    /\ Last.V[FieldX(Last.op)] = 255 /\ Last.V[FieldY(Last.op)] = 255
    /\ Last.gfx = {}
    /\ cpu.gfx = {31 * 64 + 63} \cup {31 * 64 + c : c \in 0..6} \cup {63, 6}

(* C20: after a draw VF is 1 if and only if at least one framebuffer pixel
   went from on to off during the blit, and 0 otherwise, also for n = 0 and
   for an all-zero sprite. *)
C20_DrawCollisionFlag ==
    (Ticked /\ ~panicked /\ IsDRW(Last.op)) =>
       cpu.V[15] = (IF Last.gfx \ cpu.gfx # {} THEN 1 ELSE 0)

(* a draw over lit pixels: some went off, VF went from 0 to 1 *)
C20_Witness ==
    /\ Ticked /\ ~panicked /\ IsDRW(Last.op)
    /\ Last.gfx \ cpu.gfx # {}
    /\ Last.V[15] = 0 /\ cpu.V[15] = 1

(* n = 0 with VF nonzero before: nothing drawn, VF reset *)
DrawNothingResetsFlagReached ==
    /\ Ticked /\ ~panicked /\ IsDRW(Last.op)
    /\ FieldN(Last.op) = 0
    /\ Last.V[15] = \h3D /\ cpu.V[15] = 0 /\ Last.gfx_same

(* an all-zero sprite of five rows with VF nonzero before *)
DrawZeroSpriteResetsFlagReached ==
    /\ Ticked /\ ~panicked /\ IsDRW(Last.op)
    /\ FieldN(Last.op) = 5 /\ LastSpriteCells = {}
    /\ Last.V[15] # 0 /\ cpu.V[15] = 0 /\ Last.gfx_same

(* C21 (under SpecDecode): decode_instruction returns a text for every
   16-bit opcode without a fatal error, so the window can decode the word
   at the program counter at any time. *)
C21_DecoderTotal ==
    (rom_loaded /\ FetchInBounds(cpu)) =>
       /\ ~panicked
       /\ label # NoLabel => label.shown

(* the text ends with the characters of tail *)
EndsWith(text, tail) ==
    /\ Len(text) >= Len(tail)
    /\ SubSeq(text, Len(text) - Len(tail) + 1, Len(text)) = tail

(* C22 (under SpecDecode): the decoder and the executor classify every
   opcode alike: the same group and sub-case, the same operand fields in
   the text as the executor uses, and the decoder takes an opcode as
   unrecognized (a panic, or the empty text in group 0) exactly when the
   executor does (a panic, or the no-op in group 0). *)
C22_DecoderMirrorsExecutor ==
    (rom_loaded /\ FetchInBounds(cpu)) =>
       LET op  == get_opcode(cpu)
           d   == decode_instruction(op)
           arm == execute_arm(op)
       IN  /\ decode_arm(op) = arm
           /\ d.panic = ~Recognized(op)
           /\ (~d.panic /\ d.text = << >>) = IsSYS(op)
           /\ (arm = "unreachable") = ~Recognized(op)
           /\ (arm = "SYS") = IsSYS(op)
           /\ arm \in {"JP", "CALL", "LD_I", "JP_V0"} => EndsWith(d.text, FmtHex3(FieldNNN(op)))
           /\ arm \in {"SE_byte", "SNE_byte", "LD_byte", "ADD_byte", "RND"}
                 => /\ EndsWith(d.text, FmtHex2(FieldKK(op)))
                    /\ SubSeq(d.text, 6, 7) = FmtReg(FieldX(op))
           /\ arm = "DRW"
                 => d.text = << "D", "R", "W", " ", " " >> \o FmtReg(FieldX(op)) \o << ",", " " >>
                               \o FmtReg(FieldY(op)) \o << ",", " " >> \o FmtHex1(FieldN(op))
           /\ (label # NoLabel /\ ~panicked) => (label.op = op /\ label.text = d.text)

(* the window shows "DRW  VA, VB, 5" for the word DAB5 *)
C22_Witness ==
    /\ label.shown /\ ~panicked
    /\ label.op = \hDAB5
    /\ label.text = << "D", "R", "W", " ", " ", "V", "A", ",", " ", "V", "B", ",", " ", "5" >>

(* 0A20 is shown as CLS, the way the executor runs it *)
DecodedAliasReached ==
    label.shown /\ label.op = \h0A20 /\ label.text = << "C", "L", "S" >>

(* 8A08 reaches unreachable!() in the decoder *)
DecoderPanicReached ==
    panicked /\ FetchInBounds(cpu) /\ get_opcode(cpu) = \h8A08

(* bytes with which a tick that draws nothing is run, to see that the
   generator's state has no part in it *)
RandProbe == {0, \h5A, \hFF}

(* what one tick makes of the machine as it is, for each byte the random
   generator may return *)
TickResults ==
    { tick(cpu, r, overflow_checks) :
         r \in IF FetchInBounds(cpu) /\ IsRND(get_opcode(cpu)) THEN RandBytes ELSE RandProbe }

(* C23 as stated: two machines equal in every field are equal in every
   field after one tick, for every opcode. *)
C23_TickDeterministic ==
    (rom_loaded /\ ~panicked) => Cardinality(TickResults) = 1

(* C23 as amended: for every opcode but random Vx,kk (Cxkk) a tick takes
   equal machines to equal machines; a tick on Cxkk takes them to machines
   equal in every field but Vx, and leaves in Vx a byte with no bit outside
   kk. *)
C23_TickDeterministicButRnd ==
    /\ (rom_loaded /\ ~panicked) =>
          IF FetchInBounds(cpu) /\ IsRND(get_opcode(cpu))
          THEN LET results == TickResults
                   r0      == CHOOSE r \in results : TRUE
               IN  \A r1 \in results :
                      /\ ~r1.panic
                      /\ [r1.cpu EXCEPT !.V[FieldX(get_opcode(cpu))] = 0]
                            = [r0.cpu EXCEPT !.V[FieldX(get_opcode(cpu))] = 0]
          ELSE Cardinality(TickResults) = 1
    /\ (Ticked /\ IsRND(Last.op)) =>
          /\ ~panicked
          /\ BitAnd(cpu.V[FieldX(Last.op)], FieldKK(Last.op)) = cpu.V[FieldX(Last.op)]
          /\ \A i \in 0..(NUM_REGS - 1) : i # FieldX(Last.op) => cpu.V[i] = Last.V[i]
          /\ cpu.pc = Last.pc + 2

(* RND V0, 0F left 0x0A in V0 (the generator returned 0x5A) *)
C23_Witness ==
    /\ Ticked /\ ~panicked /\ IsRND(Last.op)
    /\ FieldKK(Last.op) = \h0F
    /\ cpu.V[FieldX(Last.op)] = \h0A

(* C24: load F,Vx (Fx29) sets the index register to Vx * 5 for every Vx in
   0..255, without failing and without truncating to 8 bits. *)
C24_GlyphAddress ==
    (Ticked /\ IsLD_F(Last.op)) =>
       /\ ~panicked
       /\ cpu.I = Last.V[FieldX(Last.op)] * 5

(* Vx = 0x0A gives index 50 *)
GlyphAddressOfAReached ==
    /\ Ticked /\ ~panicked /\ IsLD_F(Last.op)
    /\ Last.V[FieldX(Last.op)] = \h0A /\ cpu.I = 50

(* C25: a tick called with program counter + 1 > 4095 ends in a panic at
   the fetch: no opcode is built from a byte outside the 4096 bytes of
   memory or from a wrapped address, and nothing is executed. *)
C25_FetchStaysInMemory ==
    (Ticked /\ Last.pc + 1 > MEMORY_SIZE - 1) =>
       /\ panicked
       /\ Last.op = -1
       /\ cpu.pc = Last.pc
       /\ cpu.V = Last.V /\ cpu.I = Last.I /\ cpu.sp = Last.sp
       /\ cpu.delay_timer = Last.delay_timer /\ cpu.sound_timer = Last.sound_timer
       /\ Last.mem_same /\ Last.gfx_same

(* the program counter on the last byte: the second byte of the word would
   be memory[4096] *)
C25_Witness ==
    /\ Ticked /\ panicked
    /\ Last.pc = MEMORY_SIZE - 1
    /\ Last.op = -1

(* JP V0, FFF with V0 = 0xFF: the program counter is 0x10FE *)
FetchAfterJumpV0Reached ==
    /\ Ticked2 /\ panicked
    /\ IsJP_V0(Before.op) /\ Last.pc = \h10FE

(* execution ran past the last instruction: the program counter is 4096 *)
FetchPastEndReached ==
    /\ Ticked2 /\ panicked
    /\ IsCLS(Before.op) /\ Last.pc = MEMORY_SIZE

(* the three decimal digits of v, hundreds first *)
BcdDigits(v) == << v \div 100, (v \div 10) % 10, v % 10 >>

(* C26: store-BCD (Fx33) leaves the hundreds, tens and ones digit of Vx in
   memory[I], memory[I+1] and memory[I+2], each in 0..9 and together worth
   Vx; no other memory byte, no register and not the index register
   changes. *)
C26_StoreBcd ==
    (Ticked /\ ~panicked /\ IsLD_B(Last.op)) =>
       LET v == Last.V[FieldX(Last.op)]
           a == MemRead(cpu.memory, Last.I)
           b == MemRead(cpu.memory, Last.I + 1)
           c == MemRead(cpu.memory, Last.I + 2)
       IN  /\ << a, b, c >> = BcdDigits(v)
           /\ a \in 0..9 /\ b \in 0..9 /\ c \in 0..9
           /\ 100 * a + 10 * b + c = v
           /\ Last.mem_diff \subseteq {Last.I, Last.I + 1, Last.I + 2}
           /\ cpu.V = Last.V
           /\ cpu.I = Last.I
           /\ cpu.sp = Last.sp /\ cpu.stack = Last.stack
           /\ Last.gfx_same

(* Vx = 156 left 1, 5, 6 at 0x300 *)
C26_Witness ==
    /\ Ticked /\ ~panicked /\ IsLD_B(Last.op)
    /\ Last.V[FieldX(Last.op)] = 156
    /\ Last.I = \h300
    /\ MemRead(cpu.memory, \h300) = 1
    /\ MemRead(cpu.memory, \h301) = 5
    /\ MemRead(cpu.memory, \h302) = 6

(* Vx = 255 left 2, 5, 5 *)
BcdOfMaxReached ==
    /\ Ticked /\ ~panicked /\ IsLD_B(Last.op)
    /\ Last.V[FieldX(Last.op)] = 255
    /\ << MemRead(cpu.memory, Last.I), MemRead(cpu.memory, Last.I + 1),
          MemRead(cpu.memory, Last.I + 2) >> = << 2, 5, 5 >>

(* C27: within one tick the opcode executes before the timers decay:
   load delay-timer,Vx (Fx15) with Vx = k > 0 ends with delay_timer = k - 1;
   load sound-timer,Vx (Fx18) with Vx = 1 ends with sound_timer = 0 and the
   beep flag raised; load Vx,delay-timer (Fx07) reads the value the timer
   had before that tick's decay. *)
C27_ExecuteBeforeDecay ==
    (Ticked /\ ~panicked) =>
       LET x == FieldX(Last.op)
       IN  /\ (IsLD_DT_Vx(Last.op) /\ Last.V[x] > 0)
                 => cpu.delay_timer = Last.V[x] - 1
           /\ (IsLD_ST_Vx(Last.op) /\ Last.V[x] = 1)
                 => (cpu.sound_timer = 0 /\ Last.beep_pending)
           /\ IsLD_Vx_DT(Last.op)
                 => /\ cpu.V[x] = Last.delay_timer
                    /\ (Last.delay_timer > 0 => cpu.delay_timer = Last.delay_timer - 1)

(* LD ST, V0 with V0 = 1: the sound timer is 0 and the beep flag is up at
   the end of the tick that loaded it *)
C27_Witness ==
    /\ Ticked /\ ~panicked
    /\ IsLD_ST_Vx(Last.op)
    /\ Last.V[FieldX(Last.op)] = 1
    /\ Last.sound_timer = 0 /\ ~Last.make_beep
    /\ cpu.sound_timer = 0 /\ Last.beep_pending

(* LD DT, V0 with V0 = 3 ends with the delay timer at 2 *)
LoadDelayThenDecayReached ==
    /\ Ticked /\ ~panicked
    /\ IsLD_DT_Vx(Last.op)
    /\ Last.V[FieldX(Last.op)] = 3
    /\ cpu.delay_timer = 2

(* LD V1, DT read 2 while the tick left the timer at 1 *)
ReadDelayBeforeDecayReached ==
    /\ Ticked /\ ~panicked
    /\ IsLD_Vx_DT(Last.op)
    /\ cpu.V[FieldX(Last.op)] = 2
    /\ cpu.delay_timer = 1

(* C28: a tick whose opcode is neither clear-screen (00E0) nor draw (Dxyn)
   leaves every framebuffer cell unchanged, and a tick whose opcode is
   neither call (2nnn) nor return (00EE) leaves the stack and the stack
   pointer unchanged; group-0 opcodes other than 00E0 and 00EE touch
   neither. *)
C28_FrameAndStackOwnOpcodes ==
    (Ticked /\ ~panicked /\ Last.op >= 0) =>
       /\ (Last.op # \h00E0 /\ ~IsDRW(Last.op)) => Last.gfx_same
       /\ (~IsCALL(Last.op) /\ Last.op # \h00EE)
             => (cpu.stack = Last.stack /\ cpu.sp = Last.sp)

(* 0120 after a draw cleared the lit cells *)
AliasClearedScreenReached ==
    /\ Ticked /\ ~panicked
    /\ Last.op = \h0120
    /\ Last.gfx # cpu.gfx

(* 012E after a call popped the stack *)
AliasReturnedReached ==
    /\ Ticked /\ ~panicked
    /\ Last.op = \h012E
    /\ cpu.sp = Last.sp - 1

(* an opcode of another group left framebuffer and stack alone *)
OtherGroupsLeaveFrameAndStackReached ==
    /\ Ticked2 /\ ~panicked
    /\ IsDRW(Before.op) /\ Last.op = \h6000
    /\ Last.gfx_same /\ cpu.gfx # {}
    /\ cpu.stack = Last.stack /\ cpu.sp = Last.sp

(* C29: Emu::progress runs one tick and consumes the beep:
   the flag is down after every progress() call, beep() is invoked in a
   call exactly when the flag is up after that call's tick, which is
   exactly when the sound timer went from 1 to 0 in it; a tick with the
   sound timer at 0 produces no beep. *)
C29_ProgressConsumesBeep ==
    /\ ~cpu.make_beep
    /\ (Ticked /\ ~panicked) =>
          LET sound == IF IsLD_ST_Vx(Last.op) THEN Last.V[FieldX(Last.op)]
                       ELSE Last.sound_timer
          IN  /\ Last.beeped = Last.beep_pending
              /\ Last.beeped = (sound = 1)
              /\ Last.beeped => cpu.sound_timer = 0
              /\ (sound = 0) => (~Last.beeped /\ cpu.sound_timer = 0)
              /\ (sound > 1) => cpu.sound_timer = sound - 1

(* a progress() call whose tick took the sound timer from 1 to 0 beeped
   and left the flag down *)
C29_Witness ==
    /\ Ticked /\ ~panicked
    /\ Last.sound_timer = 1
    /\ Last.beeped
    /\ cpu.sound_timer = 0
    /\ ~cpu.make_beep

(* the call after the beep runs with the sound timer at 0 and is silent *)
SilentAfterBeepReached ==
    /\ Ticked2 /\ ~panicked
    /\ IsLD_ST_Vx(Before.op) /\ Before.V[FieldX(Before.op)] = 1
    /\ Last.sound_timer = 0
    /\ ~Last.beeped
====
